---- MODULE Spec2Model ----
(***************************************************************************)
(* livo::IMUProcessor (fastlivo/src/map_builder/imu_processor.cpp):        *)
(* initialization, inertial propagation and point-cloud deskew.            *)
(*                                                                         *)
(* Geometry is one-dimensional and lives in the regime of zero rotation,   *)
(* zero corrected acceleration and identity extrinsics: rot, rot_ext are   *)
(* the identity, pos_ext, bg, ba, g, gyro and acc are zero, so a state is  *)
(* a position and a velocity.  All times are counted in milliseconds, the  *)
(* unit of PointType::curvature: a timestamp t of the code (seconds) is    *)
(* held as 1000 * t, so `curvature / 1000 > head->offset` of the code is   *)
(* `curvature > offset` here.                                              *)
(***************************************************************************)
EXTENDS Integers, Sequences, FiniteSets, TLC

\* ---------------------------------------------------------------- bounds
MaxTime == 3
MaxPoints == 2

\* m_config.imu_init_num
imu_init_num == 2

\* m_last_acc: setZero() in the constructor; rot * (acc_val - ba) + g is zero
\* in the regime modelled.
m_last_acc == 0

Times == 0 .. MaxTime
Vels == {0, 1}
\* What an out-of-range read of a point's curvature may return.
Garbage == {0, MaxTime + 1}
\* the owner stops feeding initialize at twice the threshold
MaxCache == 2 * imu_init_num

VARIABLES
    is_initialized,     \* IMUProcessor::is_initialized
    m_imu_cache,        \* accumulation buffer / sample window
    m_imu_poses_cache,  \* pose cache
    m_last_imu,         \* continuity anchor
    m_last_end_time,    \* last processed end time
    kf,                 \* shared estimator: mean state x() and covariance P()
    cloud,              \* the caller's scan points after the latest call
    call,               \* what the latest call of this class did
    scan_end_seen,      \* caller: end time of the latest scan submitted
    undistorted,        \* some undistort has run on this instance
    supplied,           \* samples handed to initialize so far (capped)
    crashed             \* the process faulted

vars == <<is_initialized, m_imu_cache, m_imu_poses_cache, m_last_imu,
          m_last_end_time, kf, cloud, call, scan_end_seen, undistorted,
          supplied, crashed>>

\* ------------------------------------------------------------- estimator
\* kf::IESKF::predict(inp, dt, Q): Euler step of the mean, covariance
\* propagated.  With zero input acceleration the velocity is constant.
predict(x, dt) ==
    [x EXCEPT !.pos = @ + x.vel * dt, !.P = "predicted"]

\* ------------------------------------------------------------ initialize
\* m_kf->P().setIdentity() and the small diagonal blocks
InitCovariance(x) ==
    [x EXCEPT !.P = "seeded"]

\* if (m_imu_cache.size() < m_config.imu_init_num) return false;
NotEnoughSamples(cache) ==
    Len(cache) < imu_init_num

\* bool IMUProcessor::initialize(std::vector<IMUData> &imus)
initialize(cache, imus, x, anchor) ==
    LET c == cache \o imus IN
    IF NotEnoughSamples(c)
    THEN [ret |-> FALSE, cache |-> c, x |-> x, anchor |-> anchor]
    ELSE [ret |-> TRUE, cache |-> c, x |-> InitCovariance(x),
          anchor |-> c[Len(c)]]

\* ----------------------------------------------------------- propagation
\* for (it_imu = begin; it_imu < end - 1; it_imu++): number of iterations
PairCount_inclusive(win) ==
    Len(win)

PairCount(win) ==
    Len(win) - 1

\* *it_imu, *(it_imu + 1); a read past the window returns some sample
ReadIMU(win, i) ==
    IF i \in 1 .. Len(win) THEN win[i] ELSE [timestamp |-> 0]

SkipPair_le(tail, last_end) ==
    tail.timestamp <= last_end

\* if (tail.timestamp < m_last_end_time) continue;
SkipPair(tail, last_end) ==
    tail.timestamp < last_end

\* dt = tail - m_last_end_time when head is before it, else tail - head
StepDt(head, tail, last_end) ==
    IF head.timestamp < last_end
    THEN tail.timestamp - last_end
    ELSE tail.timestamp - head.timestamp

PoseOffset_negated(tail, cloud_time_begin) ==
    cloud_time_begin - tail.timestamp

\* double offset = tail.timestamp - cloud_time_begin;
PoseOffset(tail, cloud_time_begin) ==
    tail.timestamp - cloud_time_begin

PoseOf(offset, x) ==
    [offset |-> offset, acc |-> m_last_acc, vel |-> x.vel, pos |-> x.pos]

RECURSIVE Propagate(_, _, _, _, _)
\* the loop over consecutive (head, tail) pairs of the window, from pair i on
Propagate(win, i, p, last_end, cloud_time_begin) ==
    IF i > PairCount(win) THEN p
    ELSE
      LET head == ReadIMU(win, i)
          tail == ReadIMU(win, i + 1)
          oob  == p.imu_oob \/ (i + 1 > Len(win))
      IN
      IF SkipPair(tail, last_end)
      THEN Propagate(win, i + 1, [p EXCEPT !.imu_oob = oob],
                     last_end, cloud_time_begin)
      ELSE
        LET dt == StepDt(head, tail, last_end)
            x1 == predict(p.x, dt)
        IN Propagate(win, i + 1,
               [x |-> x1,
                poses |-> Append(p.poses,
                             PoseOf(PoseOffset(tail, cloud_time_begin), x1)),
                predicts |-> Append(p.predicts, dt),
                steps |-> Append(p.steps, [pair |-> i, dt |-> dt]),
                imu_oob |-> oob],
               last_end, cloud_time_begin)

\* ---------------------------------------------------------------- deskew
\* std::sort by curvature: any ordering of the points that is ascending
IsSortedByCurvature(s) ==
    \A i \in 1 .. Len(s) - 1 : ~(s[i + 1].curvature < s[i].curvature)

SortedClouds(points) ==
    IF points = <<>> THEN {<<>>}
    ELSE { s \in { [i \in 1 .. Len(points) |-> points[p[i]]] :
                     p \in Permutations(1 .. Len(points)) } :
             IsSortedByCurvature(s) }

\* it_pcl->curvature / double(1000) > head->offset
ConsumesPoint(curvature, head) ==
    curvature > head.offset

\* p_compensate for identity rotations and zero extrinsic translation
Compensate(x, head, tail, dt, cur_pos) ==
    LET point_pos == head.pos + head.vel * dt + (tail.acc * dt * dt) \div 2
    IN x + point_pos - cur_pos

RECURSIVE PointWalk(_, _, _, _, _)
\* the inner for loop over it_pcl at pose-cache interval (kp - 1, kp)
PointWalk(d, poses, kp, cur_pos, ub) ==
    LET head == poses[kp - 1]
        tail == poses[kp]
    IN
    IF d.pcl \notin 1 .. Len(d.pts)
    THEN \* it_pcl points outside the scan: the read is undefined
         IF ub.fault THEN [d EXCEPT !.oob = @ + 1, !.fault = TRUE]
         ELSE IF ConsumesPoint(ub.garbage, head)
              THEN \* the store that follows is out of range as well
                   [d EXCEPT !.oob = @ + 2, !.fault = TRUE]
              ELSE [d EXCEPT !.oob = @ + 1]
    ELSE IF ConsumesPoint(d.pts[d.pcl].curvature, head)
    THEN LET dt == d.pts[d.pcl].curvature - head.offset
             d1 == [d EXCEPT
                      !.pts[d.pcl].x =
                          Compensate(@, head, tail, dt, cur_pos),
                      !.writes = Append(@, [idx |-> d.pcl, kp |-> kp,
                                            dt |-> dt])]
         IN IF d.pcl = 1
            THEN d1                                   \* break
            ELSE PointWalk([d1 EXCEPT !.pcl = @ - 1], poses, kp, cur_pos, ub)
    ELSE d

RECURSIVE PoseWalk(_, _, _, _, _)
\* for (it_kp = end - 1; it_kp != begin; it_kp--)
PoseWalk(d, poses, kp, cur_pos, ub) ==
    IF kp = 1 \/ d.fault THEN d
    ELSE PoseWalk(PointWalk(d, poses, kp, cur_pos, ub),
                  poses, kp - 1, cur_pos, ub)

\* ------------------------------------------------------------- undistort
\* void IMUProcessor::undistort(SyncPackage &package)
undistort(anchor, last_end, x, pkg, sorted, ub) ==
    LET win  == <<anchor>> \o pkg.imus
        seed == PoseOf(0, x)
        p    == Propagate(win, 1,
                    [x |-> x, poses |-> <<seed>>, predicts |-> <<>>,
                     steps |-> <<>>, imu_oob |-> FALSE],
                    last_end, pkg.cloud_start_time)
        dt   == pkg.cloud_end_time - win[Len(win)].timestamp
        x2   == predict(p.x, dt)
        d    == PoseWalk([pts |-> sorted, pcl |-> Len(sorted),
                          writes |-> <<>>, oob |-> 0, fault |-> FALSE],
                         p.poses, Len(p.poses), x2.pos, ub)
    IN [window |-> win, poses |-> p.poses, steps |-> p.steps,
        predicts |-> Append(p.predicts, dt), imu_oob |-> p.imu_oob,
        x |-> x2, anchor |-> win[Len(win)],
        last_end |-> pkg.cloud_end_time,
        sorted |-> sorted, pts |-> d.pts, writes |-> d.writes,
        oob |-> d.oob, fault |-> d.fault]

\* --------------------------------------------------------------- process
\* if (!is_initialized) is_initialized = initialize(sync.imus);
NeedsInitialize(init) ==
    ~init

MayUndistort_always(ready) ==
    TRUE

\* if (is_initialized) undistort(sync);
MayUndistort(ready) ==
    ready

\* --------------------------------------------------------------- inputs
RECURSIVE Ascending(_)
\* the members of a set of times, in ascending order
Ascending(S) ==
    IF S = {} THEN <<>>
    ELSE LET m == CHOOSE x \in S : \A y \in S : x <= y
         IN <<m>> \o Ascending(S \ {m})

\* batches of samples stamped in lo .. hi, strictly time-increasing
Batches(lo, hi) ==
    { [i \in 1 .. Len(q) |-> [timestamp |-> q[i]]] :
        q \in { Ascending(S) : S \in SUBSET (lo .. hi) } }

\* x of the i-th point submitted
PointX(i) ==
    10 * i

\* scans of at most MaxPoints points with offsets within the scan's span,
\* handed over latest point first (the sort has to reverse them)
Clouds(span) ==
    UNION { { [i \in 1 .. n |-> [x |-> PointX(i), curvature |-> c[i]]] :
                c \in { g \in [1 .. n -> 0 .. span] :
                          \A i \in 1 .. n - 1 : g[i] >= g[i + 1] } } :
            n \in 0 .. MaxPoints }

\* the caller's next sample is later than every sample supplied so far
NextSampleTime ==
    IF m_imu_cache = <<>> THEN 0
    ELSE m_imu_cache[Len(m_imu_cache)].timestamp + 1

Min(a, b) ==
    IF a < b THEN a ELSE b

Max(a, b) ==
    IF a < b THEN b ELSE a

NoCall ==
    [op |-> "none", pkg |-> [imus |-> <<>>, cloud_start_time |-> 0,
                             cloud_end_time |-> 0, points |-> <<>>],
     ready0 |-> FALSE, ret |-> FALSE, first |-> FALSE, cache0 |-> <<>>,
     last_end0 |-> 0, anchor0 |-> [timestamp |-> 0],
     x0 |-> [pos |-> 0, vel |-> 0, P |-> "prior"],
     x1 |-> [pos |-> 0, vel |-> 0, P |-> "prior"],
     total |-> 0, trace |-> <<>>, window |-> <<>>, poses |-> <<>>,
     steps |-> <<>>, predicts |-> <<>>, imu_oob |-> FALSE,
     sorted |-> <<>>, writes |-> <<>>, oob |-> 0]

\* ------------------------------------------------------------------ Init
\* The constructor leaves m_last_end_time and m_last_imu unassigned:
\* m_last_end_time holds any value; m_last_imu is assigned by initialize
\* before undistort first reads it.
Init ==
    /\ is_initialized = FALSE
    /\ m_imu_cache = <<>>
    /\ m_imu_poses_cache = <<>>
    /\ m_last_imu = [timestamp |-> 0]
    /\ m_last_end_time \in Times
    /\ kf = [pos |-> 0, vel |-> 0, P |-> "prior"]
    /\ cloud = <<>>
    /\ call = NoCall
    /\ scan_end_seen = -1
    /\ undistorted = FALSE
    /\ supplied = 0
    /\ crashed = FALSE

\* --------------------------------------------------------------- actions
\* process(sync) on a package within the caller's contract
Process(pkg, sorted, ub) ==
    /\ ~crashed
    /\ call.op = "none"
    /\ LET runInit == NeedsInitialize(is_initialized)
           i == IF runInit
                THEN initialize(m_imu_cache, pkg.imus, kf, m_last_imu)
                ELSE [ret |-> is_initialized, cache |-> m_imu_cache,
                      x |-> kf, anchor |-> m_last_imu]
           tot == IF runInit
                  THEN Min(supplied + Len(pkg.imus), imu_init_num)
                  ELSE supplied
           base == [NoCall EXCEPT
                      !.op = "process", !.pkg = pkg,
                      !.ready0 = is_initialized, !.ret = i.ret,
                      !.first = ~undistorted, !.cache0 = m_imu_cache,
                      !.last_end0 = m_last_end_time,
                      !.anchor0 = i.anchor, !.x0 = kf, !.total = tot]
       IN
       /\ is_initialized' = i.ret
       /\ supplied' = tot
       /\ IF MayUndistort(i.ret)
          THEN LET u == undistort(i.anchor, m_last_end_time, i.x, pkg,
                                  sorted, ub)
               IN /\ m_imu_cache' = u.window
                  /\ m_imu_poses_cache' = u.poses
                  /\ m_last_imu' = u.anchor
                  /\ m_last_end_time' = u.last_end
                  /\ kf' = u.x
                  /\ cloud' = u.pts
                  /\ crashed' = u.fault
                  /\ undistorted' = TRUE
                  /\ call' = [base EXCEPT
                        !.x1 = u.x,
                        !.trace = (IF runInit THEN <<"initialize">>
                                   ELSE <<>>) \o <<"propagate", "deskew">>,
                        !.window = u.window, !.poses = u.poses,
                        !.steps = u.steps, !.predicts = u.predicts,
                        !.imu_oob = u.imu_oob, !.sorted = u.sorted,
                        !.writes = u.writes, !.oob = u.oob]
          ELSE /\ m_imu_cache' = i.cache
               /\ m_last_imu' = i.anchor
               /\ kf' = i.x
               /\ cloud' = pkg.points
               /\ call' = [base EXCEPT
                     !.x1 = i.x,
                     !.trace = IF runInit THEN <<"initialize">> ELSE <<>>]
               /\ UNCHANGED <<m_imu_poses_cache, m_last_end_time, crashed,
                              undistorted>>
    /\ scan_end_seen' = pkg.cloud_end_time

\* initialize(imus) called by the owner itself
Initialize(imus) ==
    /\ ~crashed
    /\ call.op = "none"
    /\ Len(m_imu_cache) + Len(imus) <= MaxCache
    /\ LET i == initialize(m_imu_cache, imus, kf, m_last_imu)
           tot == Min(supplied + Len(imus), imu_init_num)
       IN /\ m_imu_cache' = i.cache
          /\ m_last_imu' = i.anchor
          /\ kf' = i.x
          /\ supplied' = tot
          /\ call' = [NoCall EXCEPT
                !.op = "initialize",
                !.pkg = [NoCall.pkg EXCEPT !.imus = imus],
                !.ready0 = is_initialized, !.ret = i.ret,
                !.cache0 = m_imu_cache, !.last_end0 = m_last_end_time, !.anchor0 = i.anchor,
                !.x0 = kf, !.x1 = i.x, !.total = tot,
                !.trace = <<"initialize">>]
    /\ UNCHANGED <<is_initialized, m_imu_poses_cache, m_last_end_time,
                   cloud, scan_end_seen, undistorted, crashed>>

\* undistort ran in the latest call
RanUndistort ==
    \E k \in 1 .. Len(call.trace) : call.trace[k] = "propagate"

\* the external correction step for the scan just deskewed writes the
\* shared estimator, and the caller builds the next package
Update(v) ==
    /\ ~crashed
    /\ RanUndistort
    /\ kf' = [kf EXCEPT !.vel = v, !.P = "updated"]
    /\ cloud' = <<>>
    /\ call' = NoCall
    /\ UNCHANGED <<is_initialized, m_imu_cache, m_imu_poses_cache,
                   m_last_imu, m_last_end_time, scan_end_seen,
                   undistorted, supplied, crashed>>

\* a call that did not propagate returns; the caller builds the next package
Release ==
    /\ ~crashed
    /\ call.op # "none"
    /\ ~RanUndistort
    /\ cloud' = <<>>
    /\ call' = NoCall
    /\ UNCHANGED <<is_initialized, m_imu_cache, m_imu_poses_cache,
                   m_last_imu, m_last_end_time, kf, scan_end_seen,
                   undistorted, supplied, crashed>>

\* the outcomes of a read through it_pcl outside the scan; it_pcl stays
\* inside a scan that has points
Outcomes(pts) ==
    IF pts = <<>>
    THEN {[fault |-> TRUE, garbage |-> 0]}
           \cup [fault : {FALSE}, garbage : Garbage]
    ELSE {[fault |-> TRUE, garbage |-> 0]}

DoProcess ==
    \E e \in Max(scan_end_seen + 1, NextSampleTime - 1) .. MaxTime :
      \E b \in Max(scan_end_seen, 0) .. e :
        \E imus \in Batches(NextSampleTime, e) :
          \E pts \in Clouds(e - b) :
            \E sorted \in SortedClouds(pts) :
              \E ub \in Outcomes(pts) :
                Process([imus |-> imus, cloud_start_time |-> b,
                         cloud_end_time |-> e, points |-> pts],
                        sorted, ub)

DoInitialize ==
    \E imus \in Batches(NextSampleTime, MaxTime) : Initialize(imus)

DoUpdate ==
    \E v \in Vels : Update(v)

Next ==
    \/ DoProcess
    \/ DoInitialize
    \/ DoUpdate
    \/ Release

Spec == Init /\ [][Next]_vars

\* ---------------------------------------------------------------- claims
Window == call.window
LastEnd0 == call.last_end0
ScanStart == call.pkg.cloud_start_time
ScanEnd == call.pkg.cloud_end_time

RECURSIVE SumSeq(_)
SumSeq(q) ==
    IF q = <<>> THEN 0 ELSE Head(q) + SumSeq(Tail(q))

\* C1: every dt handed to predict during a process call is non-negative
\* (integration steps and trailing extrapolation), for batches that are
\* time-ordered, non-decreasing across batches and not later than the scan
\* end.
C1_DtNonNegative ==
    RanUndistort =>
        \A k \in 1 .. Len(call.predicts) : call.predicts[k] >= 0

\* C2: initialize returns false while the samples supplied to it are fewer
\* than imu_init_num, and true on the call that reaches the threshold and on
\* every initialize call afterwards.
C2_ReadinessMonotonic ==
    (call.trace # <<>> /\ call.trace[1] = "initialize") =>
        (call.ret <=> call.total >= imu_init_num)

\* the pose cache and the end pose lie on one constant-velocity trajectory
ConstantVelocityTrajectory ==
    /\ \A k \in 1 .. Len(call.poses) :
          call.poses[k].pos
            = call.poses[1].pos + call.x1.vel * call.poses[k].offset
    /\ call.x1.pos
          = call.poses[1].pos + call.x1.vel * (ScanEnd - ScanStart)

\* C3: under constant velocity, zero rotation, zero corrected acceleration
\* and identity extrinsics every scan point, offset 0 included, ends at its
\* original coordinate plus (platform position at its capture instant minus
\* platform position at the scan end).
C3_ClosedFormDeskew ==
    (RanUndistort /\ ~crashed /\ ConstantVelocityTrajectory) =>
        \A i \in 1 .. Len(cloud) :
            cloud[i].x = call.sorted[i].x
                + call.x1.vel * ((ScanStart + cloud[i].curvature) - ScanEnd)

WindowTimeOrdered ==
    \A i \in 1 .. Len(Window) - 1 :
        Window[i].timestamp <= Window[i + 1].timestamp

\* the scan's bounds lie inside the span of the sample window
ScanWithinWindow ==
    /\ Window[1].timestamp <= ScanStart
    /\ ScanEnd <= Window[Len(Window)].timestamp

\* C4 as stated: after propagation the pose cache is non-empty, starts at
\* offset 0 and its offsets ascend along the whole cache, for a time-ordered
\* window and a scan inside it.
C4_OffsetsAscending ==
    (RanUndistort /\ call.ready0 /\ WindowTimeOrdered /\ ScanWithinWindow) =>
        /\ Len(m_imu_poses_cache) >= 1
        /\ m_imu_poses_cache[1].offset = 0
        /\ \A k \in 1 .. Len(m_imu_poses_cache) - 1 :
              m_imu_poses_cache[k].offset <= m_imu_poses_cache[k + 1].offset

\* C4 amended: after propagation the pose cache is non-empty, starts at
\* offset 0, and the appended entries' offsets ascend among themselves; the
\* first appended entry is at or above the seed's 0 exactly when its sample
\* is not earlier than the scan start.
C4_AppendedOffsetsAscending ==
    RanUndistort =>
        /\ Len(m_imu_poses_cache) >= 1
        /\ m_imu_poses_cache[1].offset = 0
        /\ \A k \in 2 .. Len(m_imu_poses_cache) - 1 :
              m_imu_poses_cache[k].offset <= m_imu_poses_cache[k + 1].offset
        /\ Len(m_imu_poses_cache) >= 2 =>
              (m_imu_poses_cache[2].offset >= 0
                 <=> Window[call.steps[1].pair + 1].timestamp >= ScanStart)

C4_Witness ==
    /\ RanUndistort
    /\ call.ready0
    /\ Len(m_imu_poses_cache) >= 3
    /\ m_imu_poses_cache[2].offset < 0
    /\ m_imu_poses_cache[2].offset < m_imu_poses_cache[3].offset

\* C5: with a scan of zero points no scan point is read or written: the point
\* cursor is never dereferenced outside the scan.
C5_EmptyScanGuarded ==
    (RanUndistort /\ call.pkg.points = <<>>) => call.oob = 0

\* C6: with an empty batch the window is the anchor alone, no integration
\* step runs, the one predict is the trailing extrapolation with
\* dt = scan end - anchor timestamp, the pose cache is the seed alone, no
\* sample outside the window is read and the anchor is unchanged.
C6_EmptyBatch ==
    (RanUndistort /\ call.pkg.imus = <<>>) =>
        /\ Window = <<call.anchor0>>
        /\ m_imu_cache = Window
        /\ call.steps = <<>>
        /\ call.predicts = <<ScanEnd - call.anchor0.timestamp>>
        /\ Len(m_imu_poses_cache) = 1
        /\ m_imu_poses_cache[1].offset = 0
        /\ ~call.imu_oob
        /\ m_last_imu = call.anchor0

C6_Witness ==
    /\ RanUndistort
    /\ call.ready0
    /\ call.pkg.imus = <<>>
    /\ call.predicts[1] > 0

\* C7: a process call that leaves the initializer not ready invokes no
\* predict and changes neither the estimator nor the scan (only the
\* accumulation buffer grows); a process call at or after readiness runs
\* propagation then deskew exactly once, and initialize only on the call
\* that reaches readiness.
C7_ProcessGate ==
    call.op = "process" =>
        /\ ~call.ret =>
              /\ call.trace = <<"initialize">>
              /\ call.predicts = <<>>
              /\ call.writes = <<>>
              /\ call.x1 = call.x0
              /\ kf = call.x0
              /\ cloud = call.pkg.points
              /\ m_imu_cache = call.cache0 \o call.pkg.imus
              /\ m_last_end_time = LastEnd0
        /\ call.ret =>
              call.trace = (IF call.ready0 THEN <<>> ELSE <<"initialize">>)
                              \o <<"propagate", "deskew">>
        /\ call.ready0 => call.ret
        /\ is_initialized = call.ret

C7_Witness ==
    /\ call.op = "process"
    /\ ~call.ret
    /\ Len(call.pkg.imus) = 1
    /\ Len(call.pkg.points) = 2
    /\ call.pkg.points[1].curvature > call.pkg.points[2].curvature

\* pairs of the window that the skip rule lets through
NonSkipped ==
    { i \in 1 .. Len(Window) - 1 : ~(Window[i + 1].timestamp < LastEnd0) }

\* C8: within one undistort call every scan point is overwritten at most
\* once, the earliest point included.
C8_PointWrittenOnce ==
    RanUndistort =>
        \A j, k \in 1 .. Len(call.writes) :
            call.writes[j].idx = call.writes[k].idx => j = k

\* C9: a pair is skipped exactly when its tail is before the last processed
\* end time; every other pair issues one predict with
\* dt = tail - max(head, last processed end time) and appends one pose sample
\* at offset tail - scan start; the trailing extrapolation
\* (dt = scan end - last window timestamp) appends none.
C9_PairRule ==
    RanUndistort =>
        /\ Len(call.steps) = Cardinality(NonSkipped)
        /\ \A k \in 1 .. Len(call.steps) :
              LET p == call.steps[k].pair IN
              /\ p \in NonSkipped
              /\ k > 1 => call.steps[k - 1].pair < p
              /\ call.steps[k].dt = Window[p + 1].timestamp
                                      - Max(Window[p].timestamp, LastEnd0)
              /\ call.predicts[k] = call.steps[k].dt
              /\ m_imu_poses_cache[k + 1].offset
                    = Window[p + 1].timestamp - ScanStart
        /\ Len(m_imu_poses_cache) = 1 + Cardinality(NonSkipped)
        /\ Len(call.predicts) = Cardinality(NonSkipped) + 1
        /\ call.predicts[Len(call.predicts)]
              = ScanEnd - Window[Len(Window)].timestamp

C9_Witness ==
    /\ RanUndistort
    /\ Len(Window) >= 3
    /\ Cardinality(NonSkipped) = 1
    /\ \E p \in NonSkipped :
          /\ Window[p].timestamp < LastEnd0
          /\ Window[p + 1].timestamp > LastEnd0

\* C10: on every undistort call after the first the dt values handed to
\* predict sum to this scan's end minus the previous scan's end, the anchor
\* becomes the window's last sample and the last processed end time this
\* scan's end; for every batch shape, the empty batch included.
C10_NoSpanTwice ==
    (RanUndistort /\ ~call.first) =>
        /\ SumSeq(call.predicts) = ScanEnd - LastEnd0
        /\ m_last_imu = Window[Len(Window)]
        /\ m_last_end_time = ScanEnd

====
